---- MODULE Spec2Model ----
(***************************************************************************)
(* Cost/tax calculation engine of the tender ("licitacao") calculator:     *)
(* state_rate and calculate_report of src/main.py (specification Spec),    *)
(* and the SQLite store with the window handlers that write to it          *)
(* (specification StoreSpec).                                              *)
(*                                                                         *)
(* Number representation.  The engine works on Python floats.  Here every  *)
(* monetary amount is an integer number of 1/10000 of a currency unit      *)
(* (Cent of them per 0.01) and every rate is an integer                    *)
(* number of percent (0.18 is 18).  Amounts entered by the user have two   *)
(* decimals, so they are multiples of Cent and a rate times an amount is   *)
(* again a whole number of 1/10000: the arithmetic of the model is exact.  *)
(* A quotient that does not terminate (net_percent) is kept as a reduced   *)
(* fraction <<numerator, denominator>>.  The exact result and the float of  *)
(* the code differ by a relative error near 2^-53, far below the cent, as  *)
(* long as amounts stay small; the amounts of the reports explored do.     *)
(* Where such an error decides the result, at a minimum sale that is       *)
(* exactly halfway between two cents, the report has either cent.          *)
(*                                                                         *)
(* The one computation whose result depends on the magnitude of its input, *)
(* the minimum sale for a profit margin (lines 174-175: a division by      *)
(* 1 - m and a round to two decimals), is modelled a second time in        *)
(* IEEE-754 binary64, bit for bit, on total costs of every magnitude the   *)
(* dialogs can produce (up to 1e12 per unit times 1e9 units).              *)
(*                                                                         *)
(* Python values.  A dict field that may hold None is modelled as None     *)
(* (the empty tuple) or Some(v) (the one-element tuple <<v>>).  A str is   *)
(* the sequence of its characters, so '' is <<>> and 'mg' is <<"m","g">>.  *)
(***************************************************************************)
EXTENDS Integers, Sequences, FiniteSets, TLC

VARIABLES
    func,       \* the code under call: "calculate_report", "state_rate",
                \* "min_sale_for_profit" (lines 174-175 alone), "caller" (a
                \* caller of calculate_report that goes on to change the
                \* objects it holds), or the handler of a window that ran last
    pc,         \* "called", "returned" or "raised"; for a handler, how it ended
    project,    \* the dict passed to calculate_report
    state,      \* the argument passed to state_rate
    report,     \* the dict calculate_report returned
    rate,       \* the float state_rate returned
    exc,        \* the exception that left the call, "" when none
    float_cost, \* the float total_cost that lines 174-175 start from
    float_sales, \* the dict min_sale_for_profit of floats they build
    state_rates, \* the dict the global DEFAULT_STATE_RATES holds
    refs,       \* the objects report['other_costs'] and
                \* report['assumptions']['state_rates'] are
    steps,      \* how many changes the caller has made since the call
    db,         \* the rows of the tables of licitacao.db and the ids given out
    foreign_keys \* whether the connection enforces the FOREIGN KEY clauses

vars ==
    <<func, pc, project, state, report, rate, exc, float_cost, float_sales,
      state_rates, refs, steps, db, foreign_keys>>

\* what the calculation leaves alone
store == <<db, foreign_keys>>

\* what the handlers of the windows leave alone
calculation == <<project, state, report, rate, exc, float_cost, float_sales,
                 state_rates, refs, steps>>

-----------------------------------------------------------------------------
(* Bounds of the model. *)

MaxProducts == 2        \* longest project['products'] explored
MaxOtherCosts == 2      \* longest project['other_costs'] explored
MaxDecade == 17         \* float total costs explored are c * 10^k cents, k up to this
MaxCallerSteps == 2     \* changes a caller makes after calculate_report returned
MaxProjectRows == 2     \* project rows ever inserted
MaxProductRows == 1     \* product rows ever inserted
MaxCostRows == 1        \* other-cost rows ever inserted

-----------------------------------------------------------------------------
(* Representation of Python values. *)

Cent == 100             \* model units per 0.01 of currency (two-decimal inputs)
Percent == 100          \* denominator of a rate (0.18 is 18)

None == <<>>
Some(v) == <<v>>

\* x or d, for a numeric x that may be None
OrNum(x, d) == IF x = None THEN d ELSE IF x[1] = 0 THEN d ELSE x[1]

\* x or d, for a str x that may be None
OrStr(x, d) == IF x = None THEN d ELSE IF x[1] = <<>> THEN d ELSE x[1]

\* rate * amount, both floats
RateTimes(r, amount) == (r * amount) \div Percent

UpperCase ==
    ("m" :> "M") @@ ("g" :> "G") @@ ("s" :> "S") @@ ("p" :> "P") @@
    ("r" :> "R") @@ ("j" :> "J") @@ ("b" :> "B") @@ ("a" :> "A")

\* str.upper()
upper(s) == [i \in 1..Len(s) |-> IF s[i] \in DOMAIN UpperCase THEN UpperCase[s[i]] ELSE s[i]]

RECURSIVE Sum(_)
\* sum() of a sequence of floats
Sum(s) == IF s = <<>> THEN 0 ELSE Sum(SubSeq(s, 1, Len(s) - 1)) + s[Len(s)]

Max(a, b) == IF a >= b THEN a ELSE b

RECURSIVE GCD(_, _)
GCD(a, b) == IF b = 0 THEN a ELSE GCD(b, a % b)

Abs(a) == IF a < 0 THEN -a ELSE a

\* what n / 0 stands for: the division raises ZeroDivisionError
DivisionByZero == <<0, 0>>

\* the float n / d, d >= 0, as a reduced fraction
Quotient(n, d) ==
    IF d = 0 THEN DivisionByZero
    ELSE LET g == GCD(Abs(n), d) IN <<n \div g, d \div g>>

\* the integers round(x) can be for the float x of n / d, d > 0: the nearest to
\* n / d; when n / d is halfway between two integers the float lies a rounding
\* error to either side of it, and either of the two can result
RoundNearest(n, d) ==
    LET q == n \div d
        r == n % d
    IN  IF 2 * r < d THEN {q}
        ELSE IF 2 * r > d THEN {q + 1}
        ELSE {q, q + 1}

-----------------------------------------------------------------------------
(* Naturals of any size, for the mantissas of floats: the digits in base   *)
(* Limb, least significant first, without leading zero; 0 is <<>>.         *)

LimbBits == 15
Limb == 2 ^ LimbBits
MantissaBits == 53

BigNat == Seq(0..(Limb - 1))

\* the digits of the integer n
Big[n \in Nat] == IF n = 0 THEN <<>> ELSE <<n % Limb>> \o Big[n \div Limb]

\* the integer of the digits a, when it fits
BigToInt[a \in BigNat] == IF a = <<>> THEN 0 ELSE a[1] + Limb * BigToInt[Tail(a)]

\* a without leading zeros
Trim[a \in BigNat] ==
    IF a # <<>> /\ a[Len(a)] = 0 THEN Trim[SubSeq(a, 1, Len(a) - 1)] ELSE a

Digit(a, i) == IF i <= Len(a) THEN a[i] ELSE 0

AddFrom[a \in BigNat, b \in BigNat, i \in Nat, c \in Nat] ==
    IF i > Len(a) /\ i > Len(b) THEN (IF c = 0 THEN <<>> ELSE <<c>>)
    ELSE <<(Digit(a, i) + Digit(b, i) + c) % Limb>>
             \o AddFrom[a, b, i + 1, (Digit(a, i) + Digit(b, i) + c) \div Limb]

BigAdd[a \in BigNat, b \in BigNat] == AddFrom[a, b, 1, 0]

SubFrom[a \in BigNat, b \in BigNat, i \in Nat, borrow \in Nat] ==
    IF i > Len(a) THEN <<>>
    ELSE <<(Digit(a, i) - Digit(b, i) - borrow) % Limb>>
             \o SubFrom[a, b, i + 1, IF Digit(a, i) - Digit(b, i) - borrow < 0 THEN 1 ELSE 0]

\* a - b, for a >= b
BigSub[a \in BigNat, b \in BigNat] == Trim[SubFrom[a, b, 1, 0]]

CmpFrom[a \in BigNat, b \in BigNat, i \in Nat] ==
    IF i = 0 THEN 0
    ELSE IF a[i] < b[i] THEN -1
    ELSE IF a[i] > b[i] THEN 1
    ELSE CmpFrom[a, b, i - 1]

\* -1, 0 or 1 as a < b, a = b or a > b
BigCmp[a \in BigNat, b \in BigNat] ==
    IF Len(a) < Len(b) THEN -1
    ELSE IF Len(a) > Len(b) THEN 1
    ELSE CmpFrom[a, b, Len(a)]

MulSmallFrom[a \in BigNat, k \in Nat, i \in Nat, c \in Nat] ==
    IF i > Len(a) THEN (IF c = 0 THEN <<>> ELSE <<c>>)
    ELSE <<(a[i] * k + c) % Limb>> \o MulSmallFrom[a, k, i + 1, (a[i] * k + c) \div Limb]

\* a * k, for 0 <= k < Limb
BigMulSmall[a \in BigNat, k \in Nat] == IF k = 0 THEN <<>> ELSE MulSmallFrom[a, k, 1, 0]

\* a * Limb^n
ShiftLimbs[a \in BigNat, n \in Nat] == IF a = <<>> THEN <<>> ELSE [i \in 1..n |-> 0] \o a

MulFrom[a \in BigNat, b \in BigNat, i \in Nat] ==
    IF i > Len(b) THEN <<>>
    ELSE BigAdd[ShiftLimbs[BigMulSmall[a, b[i]], i - 1], MulFrom[a, b, i + 1]]

BigMul[a \in BigNat, b \in BigNat] == MulFrom[a, b, 1]

\* a * 2^k
BigShiftLeft[a \in BigNat, k \in Nat] ==
    ShiftLimbs[BigMulSmall[a, 2 ^ (k % LimbBits)], k \div LimbBits]

\* 10^k, for k <= 18
BigPow10[k \in Nat] == BigMul[Big[10 ^ (k \div 2)], Big[10 ^ (k - k \div 2)]]

\* the number of bits of a digit
SmallBitLen[n \in Nat] == CHOOSE k \in 0..LimbBits : n < 2 ^ k /\ (k = 0 \/ n >= 2 ^ (k - 1))

BigBitLen[a \in BigNat] ==
    IF a = <<>> THEN 0 ELSE (Len(a) - 1) * LimbBits + SmallBitLen[a[Len(a)]]

\* the largest d with q * d <= c, for c < q * Limb and a q whose top digit is
\* at least Limb / 2: the estimate from the top digits is at most 2 too large
QuotientDigit[c \in BigNat, q \in BigNat] ==
    LET top == Digit(c, Len(q) + 1) * Limb + Digit(c, Len(q))
        guess == IF top \div q[Len(q)] >= Limb THEN Limb - 1 ELSE top \div q[Len(q)]
    IN  IF BigCmp[BigMulSmall[q, guess], c] <= 0 THEN guess
        ELSE IF BigCmp[BigMulSmall[q, guess - 1], c] <= 0 THEN guess - 1
        ELSE guess - 2

\* the quotient quo and the remainder c, after the digit d of the quotient
WithDigit[quo \in BigNat, c \in BigNat, q \in BigNat, d \in Nat] ==
    <<Trim[<<d>> \o quo], BigSub[c, BigMulSmall[q, d]]>>

\* one step of the long division by q: c is the remainder so far with the next
\* digit of the dividend brought down
DivDigit[quo \in BigNat, c \in BigNat, q \in BigNat] ==
    WithDigit[quo, c, q, QuotientDigit[c, q]]

\* the step for the pair prev, <<quotient, remainder>> so far
DivStep[prev \in BigNat \X BigNat, digit \in Nat, q \in BigNat] ==
    DivDigit[prev[1], Trim[<<digit>> \o prev[2]], q]

\* <<quotient, remainder>> of (p with its digits below digit i dropped) by q;
\* what is left of p with fewer digits than q is a remainder
DivFrom[p \in BigNat, q \in BigNat, i \in Nat] ==
    IF i > Len(p) - Len(q) + 1 THEN <<<<>>, Trim[SubSeq(p, i, Len(p))]>>
    ELSE DivStep[DivFrom[p, q, i + 1], p[i], q]

\* the power of 2 that brings the top digit of q to Limb / 2 or more
Normalizer[q \in BigNat] == 2 ^ (LimbBits - SmallBitLen[q[Len(q)]])

\* <<p div q, (p mod q) * Normalizer[q]>>, for q > 0: long division of p and q
\* scaled by Normalizer[q]
BigDivMod[p \in BigNat, q \in BigNat] ==
    DivFrom[BigMulSmall[p, Normalizer[q]], BigMulSmall[q, Normalizer[q]], 1]

\* d[1] or d[1] + 1, as twice the remainder d[2] is below or above q; on a tie
\* the even one
RoundedQuotient[d \in BigNat \X BigNat, q \in BigNat] ==
    LET c == BigCmp[BigMulSmall[d[2], 2], q]
    IN  IF c > 0 \/ (c = 0 /\ d[1] # <<>> /\ d[1][1] % 2 = 1) THEN BigAdd[d[1], Big[1]]
        ELSE d[1]

\* p / q rounded to the nearest integer, ties to the even one
BigRoundDiv[p \in BigNat, q \in BigNat] ==
    RoundedQuotient[BigDivMod[p, q], BigMulSmall[q, Normalizer[q]]]

-----------------------------------------------------------------------------
(* Python floats (IEEE-754 binary64), non-negative and finite: [m, e] is   *)
(* the float m * 2^e, with 2^52 <= m < 2^53, or m = 0.  Every operation    *)
(* rounds its exact result to the nearest float, ties to the even one.     *)

Float == [m : BigNat, e : Int]

FloatZero == [m |-> <<>>, e |-> 0]

\* the float of mantissa m and exponent e, for m <= 2^53
Normalized[m \in BigNat, e \in Int] ==
    IF BigBitLen[m] > MantissaBits
    THEN [m |-> BigShiftLeft[Big[1], MantissaBits - 1], e |-> e + 1]
    ELSE [m |-> m, e |-> e]

\* p / q as a float of exponent e, for 2^52 <= p / (q * 2^e) < 2^53
RoundAt[p \in BigNat, q \in BigNat, e \in Int] ==
    IF e >= 0 THEN Normalized[BigRoundDiv[p, BigShiftLeft[q, e]], e]
    ELSE Normalized[BigRoundDiv[BigShiftLeft[p, -e], q], e]

\* p / q as a float, for 2^52 < p / (q * 2^e) < 2^54
RoundNear[p \in BigNat, q \in BigNat, e \in Int] ==
    IF (IF e + MantissaBits >= 0
        THEN BigCmp[p, BigShiftLeft[q, e + MantissaBits]] >= 0
        ELSE BigCmp[BigShiftLeft[p, -(e + MantissaBits)], q] >= 0)
    THEN RoundAt[p, q, e + 1]
    ELSE RoundAt[p, q, e]

\* the double nearest to p / q (round to nearest, ties to even), q > 0
RoundToDouble[p \in BigNat, q \in BigNat] ==
    IF p = <<>> THEN FloatZero
    ELSE RoundNear[p, q, BigBitLen[p] - BigBitLen[q] - MantissaBits]

\* x * 2^k
Scaled[x \in Float, k \in Int] == IF x.m = <<>> THEN x ELSE [m |-> x.m, e |-> x.e + k]

\* a / b
FloatDiv[a \in Float, b \in Float] ==
    IF b = FloatZero THEN DivisionByZero
    ELSE Scaled[RoundToDouble[a.m, b.m], a.e - b.e]

\* a * b
FloatMul[a \in Float, b \in Float] == Scaled[RoundToDouble[BigMul[a.m, b.m], Big[1]], a.e + b.e]

MinInt(a, b) == IF a <= b THEN a ELSE b

\* a - b, for a >= b
FloatSub[a \in Float, b \in Float] ==
    Scaled[RoundToDouble[BigSub[BigShiftLeft[a.m, a.e - MinInt(a.e, b.e)],
                                BigShiftLeft[b.m, b.e - MinInt(a.e, b.e)]], Big[1]],
           MinInt(a.e, b.e)]

\* the float of a decimal literal with two decimals, hundredths / 100
FloatOfHundredths[h \in BigNat] == RoundToDouble[h, Big[100]]

\* round(x, 2): x to the nearest hundredth, ties to even, then to the nearest double
FloatRound2[x \in Float] ==
    IF x.e >= 0 THEN FloatOfHundredths[BigShiftLeft[BigMulSmall[x.m, 100], x.e]]
    ELSE FloatOfHundredths[BigRoundDiv[BigMulSmall[x.m, 100], BigShiftLeft[Big[1], -x.e]]]

\* int(x)
FloatToInt[x \in Float] ==
    IF x.e >= 0 THEN BigToInt[BigShiftLeft[x.m, x.e]]
    ELSE BigToInt[BigDivMod[x.m, BigShiftLeft[Big[1], -x.e]][1]]

-----------------------------------------------------------------------------
(* Module constants of src/main.py. *)

COMPANY_STATE == <<"M", "G">>
DEFAULT_INTERSTATE_RATE == 12
DEFAULT_STATE_RATES ==
    (<<"M", "G">> :> 18) @@ (<<"S", "P">> :> 18) @@ (<<"R", "J">> :> 20)
DEFAULT_SIMPLES_RATE == 5

-----------------------------------------------------------------------------
(* state_rate *)

\* lines 98-100, rates being what DEFAULT_STATE_RATES holds at the call
state_rate_in(rates, st) ==
    IF st = None THEN 0
    ELSE IF st[1] = <<>> THEN 0
    ELSE IF upper(st[1]) \in DOMAIN rates
         THEN rates[upper(st[1])]
         ELSE DEFAULT_INTERSTATE_RATE

\* state_rate looking the code up as given, without upper()
state_rate_case_sensitive(st) ==
    IF st = None THEN 0
    ELSE IF st[1] = <<>> THEN 0
    ELSE IF st[1] \in DOMAIN DEFAULT_STATE_RATES
         THEN DEFAULT_STATE_RATES[st[1]]
         ELSE DEFAULT_INTERSTATE_RATE

\* lines 97-100, while DEFAULT_STATE_RATES holds what line 51 gave it
state_rate(st) == state_rate_in(DEFAULT_STATE_RATES, st)

-----------------------------------------------------------------------------
(* calculate_report, in the order of its statements. *)

\* line 127: sum((p['sale_price'] or 0) * (p['qty'] or 1) for p in products)
total_sale_from_products(proj) ==
    Sum([i \in 1..Len(proj.products) |->
            OrNum(proj.products[i].sale_price, 0) * OrNum(proj.products[i].qty, 1)])

\* gross that lets a positive manual figure win over the priced products
gross_manual_first(proj) ==
    IF OrNum(proj.gross_sale, 0) > 0
    THEN OrNum(proj.gross_sale, 0)
    ELSE total_sale_from_products(proj)

\* line 128
gross(proj) ==
    IF total_sale_from_products(proj) > 0
    THEN total_sale_from_products(proj)
    ELSE OrNum(proj.gross_sale, 0)

\* simples_rate defaulting only when the value is None, as .get() alone does
simples_rate_none_only(proj) ==
    IF proj.simples_rate = None THEN DEFAULT_SIMPLES_RATE ELSE proj.simples_rate[1]

\* line 129
simples_rate(proj) == OrNum(proj.simples_rate, DEFAULT_SIMPLES_RATE)

\* line 134
interstate_rate == DEFAULT_INTERSTATE_RATE

\* line 135
company_internal_rate == state_rate(Some(COMPANY_STATE))

\* product_subtotal defaulting qty only when it is None, as p.get('qty', 1)
product_subtotal_qty_zero_kept(p, proj) ==
    LET qty == IF p.qty = None THEN 1 ELSE p.qty[1]
        purchase_total == OrNum(p.purchase_cost, 0) * qty
        sale_total == OrNum(p.sale_price, 0) * qty
        origin == upper(OrStr(p.purchase_state, OrStr(proj.purchase_state, <<>>)))
        dest == upper(OrStr(p.sale_state, OrStr(proj.sale_state, <<>>)))
    IN  [id |-> p.id, description |-> p.description, qty |-> qty,
         purchase_total |-> purchase_total, sale_total |-> sale_total,
         purchase_state |-> origin, sale_state |-> dest]

\* product_subtotal without the upper() of the resolved states
product_subtotal_no_upper(p, proj) ==
    LET qty == OrNum(p.qty, 1)
        purchase_total == OrNum(p.purchase_cost, 0) * qty
        sale_total == OrNum(p.sale_price, 0) * qty
        origin == OrStr(p.purchase_state, OrStr(proj.purchase_state, <<>>))
        dest == OrStr(p.sale_state, OrStr(proj.sale_state, <<>>))
    IN  [id |-> p.id, description |-> p.description, qty |-> qty,
         purchase_total |-> purchase_total, sale_total |-> sale_total,
         purchase_state |-> origin, sale_state |-> dest]

\* lines 138-149: the record appended for product p
product_subtotal(p, proj) ==
    LET qty == OrNum(p.qty, 1)
        purchase_total == OrNum(p.purchase_cost, 0) * qty
        sale_total == OrNum(p.sale_price, 0) * qty
        origin == upper(OrStr(p.purchase_state, OrStr(proj.purchase_state, <<>>)))
        dest == upper(OrStr(p.sale_state, OrStr(proj.sale_state, <<>>)))
    IN  [id |-> p.id, description |-> p.description, qty |-> qty,
         purchase_total |-> purchase_total, sale_total |-> sale_total,
         purchase_state |-> origin, sale_state |-> dest]

\* lines 131-149: the list built by the first loop
product_subtotals(proj) ==
    [i \in 1..Len(proj.products) |-> product_subtotal(proj.products[i], proj)]

\* total_purchase adding the unit costs, without the quantities
total_purchase_unit_costs(proj) ==
    Sum([i \in 1..Len(proj.products) |-> OrNum(proj.products[i].purchase_cost, 0)])

\* lines 132, 141
total_purchase(proj) ==
    Sum([i \in 1..Len(proj.products) |-> product_subtotals(proj)[i].purchase_total])

\* lines 133, 142
total_sale_assigned(proj) ==
    Sum([i \in 1..Len(proj.products) |-> product_subtotals(proj)[i].sale_total])

\* line 151
das_total(proj) == RateTimes(simples_rate(proj), gross(proj))

\* difal_out without the max(0.0, ...) and without the test for an empty state
difal_out_unclamped(item) ==
    LET dst == item.sale_state
        sale_value == IF item.sale_total > 0 THEN item.sale_total ELSE item.purchase_total
    IN  IF dst # COMPANY_STATE
        THEN RateTimes(state_rate(Some(dst)) - interstate_rate, sale_value)
        ELSE 0

\* difal_out charged on sale_total only, without the fallback to purchase_total
difal_out_on_sale_total(item) ==
    LET dst == item.sale_state
    IN  IF dst # <<>> /\ dst # COMPANY_STATE
        THEN RateTimes(Max(0, state_rate(Some(dst)) - interstate_rate), item.sale_total)
        ELSE 0

\* lines 155-157
difal_out(item) ==
    LET dst == item.sale_state
        sale_value == IF item.sale_total > 0 THEN item.sale_total ELSE item.purchase_total
    IN  IF dst # <<>> /\ dst # COMPANY_STATE
        THEN RateTimes(Max(0, state_rate(Some(dst)) - interstate_rate), sale_value)
        ELSE 0

\* difal_in using the rate of the origin state instead of the home rate
difal_in_origin_rate(item) ==
    LET origin == item.purchase_state
        purchase_value == item.purchase_total
    IN  IF origin # <<>> /\ origin # COMPANY_STATE
        THEN RateTimes(Max(0, state_rate(Some(origin)) - interstate_rate), purchase_value)
        ELSE 0

\* lines 163-165
difal_in(item) ==
    LET origin == item.purchase_state
        purchase_value == item.purchase_total
    IN  IF origin # <<>> /\ origin # COMPANY_STATE
        THEN RateTimes(Max(0, company_internal_rate - interstate_rate), purchase_value)
        ELSE 0

\* lines 153-167: the items after both DIFAL loops
products_with_difal(proj) ==
    [i \in 1..Len(proj.products) |->
        product_subtotals(proj)[i] @@
        [difal_out |-> difal_out(product_subtotals(proj)[i]),
         difal_in |-> difal_in(product_subtotals(proj)[i])]]

\* lines 153, 159
total_difal_out(proj) ==
    Sum([i \in 1..Len(proj.products) |-> products_with_difal(proj)[i].difal_out])

\* lines 161, 167
total_difal_in(proj) ==
    Sum([i \in 1..Len(proj.products) |-> products_with_difal(proj)[i].difal_in])

\* line 169 raises TypeError when a cost is None (0 + None)
total_other_raises(proj) ==
    \E i \in 1..Len(proj.other_costs) : proj.other_costs[i].cost = None

\* line 169
total_other(proj) ==
    Sum([i \in 1..Len(proj.other_costs) |-> proj.other_costs[i].cost[1]])

\* total_cost that leaves the DAS out
total_cost_without_das(proj) ==
    total_purchase(proj) + total_difal_in(proj) + total_difal_out(proj)
        + total_other(proj)

\* line 170
total_cost(proj) ==
    total_purchase(proj) + total_difal_in(proj) + total_difal_out(proj)
        + total_other(proj) + das_total(proj)

\* line 171
net_value(proj) == gross(proj) - total_cost(proj)

\* net_percent dividing without the test of gross
net_percent_unguarded(proj) == Quotient(net_value(proj) * 100, gross(proj))

\* line 172
net_percent(proj) ==
    IF gross(proj) # 0
    THEN Quotient(net_value(proj) * 100, gross(proj))
    ELSE <<0, 1>>

\* line 174, in percent
profit_margins == <<10, 15, 20>>

\* line 175: the key f"{int(m*100)}%"
margin_label(m) == ToString((m * 100) \div Percent) \o "%"

\* line 175: the values round(total_cost / (1 - m), 2) can have
min_sale(cost, m) ==
    {h * Cent : h \in RoundNearest(cost * Percent, (Percent - m) * Cent)}

\* line 175: the dicts min_sale_for_profit can be
min_sale_for_profit(proj) ==
    LET labels == {margin_label(profit_margins[i]) : i \in 1..Len(profit_margins)}
        margin(l) == CHOOSE m \in {profit_margins[i] : i \in 1..Len(profit_margins)} :
                         margin_label(m) = l
    IN  {sales \in [labels -> UNION {min_sale(total_cost(proj), margin(l)) : l \in labels}] :
            \A l \in labels : sales[l] \in min_sale(total_cost(proj), margin(l))}

\* line 174, as the floats of the literals 0.10, 0.15, 0.20
profit_margins_float ==
    <<FloatOfHundredths[Big[10]], FloatOfHundredths[Big[15]], FloatOfHundredths[Big[20]]>>

\* line 175 in floats: the key f"{int(m*100)}%"
margin_label_float(m) == ToString(FloatToInt[FloatMul[m, FloatOfHundredths[Big[10000]]]]) \o "%"

\* line 175 in floats, without the round(..., 2)
min_sale_float_unrounded(c, m) == FloatDiv[c, FloatSub[FloatOfHundredths[Big[100]], m]]

\* line 175 in floats: round(total_cost / (1 - m), 2)
min_sale_float(c, m) == FloatRound2[FloatDiv[c, FloatSub[FloatOfHundredths[Big[100]], m]]]

\* line 175 in floats
min_sale_for_profit_float(c) ==
    [l \in {margin_label_float(profit_margins_float[i]) : i \in 1..Len(profit_margins_float)} |->
        min_sale_float(c,
            CHOOSE m \in {profit_margins_float[i] : i \in 1..Len(profit_margins_float)} :
                margin_label_float(m) = l)]

\* the exception that leaves calculate_report, "" when it returns
calculate_report_raises(proj) ==
    IF total_other_raises(proj) THEN "TypeError"
    ELSE IF net_percent(proj) = DivisionByZero THEN "ZeroDivisionError"
    ELSE ""

\* lines 177-201: the report with the dict sales as min_sale_for_profit
report_with(proj, sales) ==
    [project_number |-> proj.project_number,
     client_name |-> proj.client_name,
     company_state |-> COMPANY_STATE,
     gross_sale |-> gross(proj),
     simples_rate |-> simples_rate(proj),
     das_total |-> das_total(proj),
     products |-> products_with_difal(proj),
     total_purchase |-> total_purchase(proj),
     total_difal_in |-> total_difal_in(proj),
     total_difal_out |-> total_difal_out(proj),
     other_costs |-> proj.other_costs,
     total_other |-> total_other(proj),
     total_cost |-> total_cost(proj),
     net_value |-> net_value(proj),
     net_percent |-> net_percent(proj),
     min_sale_for_profit |-> sales,
     assumptions |-> [interstate_rate |-> interstate_rate,
                      state_rates |-> DEFAULT_STATE_RATES]]

\* the objects of a call: the list in project['other_costs'], the dict in the
\* global DEFAULT_STATE_RATES, and an object only the report holds
ProjectOtherCosts == "project['other_costs']"
GlobalStateRates == "DEFAULT_STATE_RATES"
OwnObject == "object of the report"

\* lines 189, 197: the report holds the list and the dict themselves
report_references == [other_costs |-> ProjectOtherCosts, state_rates |-> GlobalStateRates]

\* lines 126-201: the reports calculate_report can return, one unless a minimum
\* sale is halfway between two cents
calculate_report(proj) == {report_with(proj, sales) : sales \in min_sale_for_profit(proj)}

-----------------------------------------------------------------------------
(* The inputs explored. *)

Str_MG == <<"M", "G">>
Str_mg == <<"m", "g">>
Str_SP == <<"S", "P">>
Str_sp == <<"s", "p">>
Str_RJ == <<"R", "J">>
Str_rj == <<"r", "j">>
Str_BA == <<"B", "A">>

\* amounts of 0.01 precision, as the spin boxes of the dialogs deliver them
Amount(cents) == cents * Cent

ProductCosts == {None, Some(0), Some(Amount(1037))}
ProductPrices == {None, Some(0), Some(Amount(1549))}
ProductQtys == {None, Some(0), Some(2)}
ProductStates == {None, Some(<<>>), Some(Str_mg), Some(Str_RJ), Some(Str_BA)}
ProjectStates == {None, Some(<<>>), Some(Str_MG), Some(Str_sp)}
GrossSales == {None, Some(0), Some(Amount(10000))}
SimplesRates == {None, Some(0), Some(10)}
OtherCostValues == {None, Some(Amount(-500)), Some(Amount(2500))}

AnyProduct ==
    [id : {1}, description : {"item"}, purchase_cost : ProductCosts,
     sale_price : ProductPrices, qty : ProductQtys,
     purchase_state : ProductStates, sale_state : ProductStates]

\* the products of the projects with several products
CoreProducts ==
    { [id |-> 1, description |-> "item", purchase_cost |-> Some(Amount(1000)),
       sale_price |-> Some(Amount(1500)), qty |-> Some(2),
       purchase_state |-> Some(Str_SP), sale_state |-> Some(Str_RJ)],
      [id |-> 1, description |-> "item", purchase_cost |-> Some(Amount(700)),
       sale_price |-> Some(0), qty |-> Some(0),
       purchase_state |-> None, sale_state |-> Some(Str_rj)],
      [id |-> 1, description |-> "item", purchase_cost |-> Some(Amount(300)),
       sale_price |-> None, qty |-> None,
       purchase_state |-> Some(Str_mg), sale_state |-> Some(<<>>)],
      [id |-> 1, description |-> "item", purchase_cost |-> Some(0),
       sale_price |-> Some(Amount(450)), qty |-> Some(3),
       purchase_state |-> Some(Str_BA), sale_state |-> Some(Str_MG)] }

\* the ids a store gives to rows are distinct: row i gets id i
Numbered(rows) == [i \in 1..Len(rows) |-> [rows[i] EXCEPT !.id = i]]

SeqsUpTo(S, n) == UNION {[1..k -> S] : k \in 0..n}

OtherCostLists ==
    { Numbered(l) :
        l \in SeqsUpTo([id : {1}, description : {"cost"}, cost : OtherCostValues],
                       MaxOtherCosts) }

\* one product, every combination of its fields and of the project's defaults
OneProductProjects ==
    [project_number : {"P-1"}, client_name : {"client"},
     gross_sale : {Some(0), Some(Amount(10000))},
     purchase_state : ProjectStates, sale_state : ProjectStates,
     simples_rate : {Some(5)},
     products : {<<p>> : p \in AnyProduct},
     other_costs : {<< >>}]

\* up to MaxProducts products and MaxOtherCosts other costs
ManyProductProjects ==
    [project_number : {"P-1"}, client_name : {"client"},
     gross_sale : GrossSales,
     purchase_state : {None, Some(Str_sp)}, sale_state : {Some(<<>>)},
     simples_rate : SimplesRates,
     products : {Numbered(l) : l \in SeqsUpTo(CoreProducts, MaxProducts)},
     other_costs : OtherCostLists]

Projects == OneProductProjects \cup ManyProductProjects

StateArgs ==
    {None, Some(<<>>), Some(Str_MG), Some(Str_mg), Some(<<"M", "g">>), Some(Str_SP),
     Some(Str_sp), Some(Str_RJ), Some(Str_rj), Some(Str_BA), Some(<<"b", "a">>)}

NoProject ==
    [project_number |-> "", client_name |-> "", gross_sale |-> None,
     purchase_state |-> None, sale_state |-> None, simples_rate |-> None,
     products |-> << >>, other_costs |-> << >>]

NoReport == [project_number |-> ""]

\* before the call the report holds nothing
NoReferences == [other_costs |-> "", state_rates |-> ""]

\* the projects of the callers that go on after the call
CallerProjects ==
    [project_number : {"P-1"}, client_name : {"client"},
     gross_sale : {Some(Amount(10000))},
     purchase_state : {Some(Str_sp)}, sale_state : {Some(Str_rj)},
     simples_rate : {Some(5)},
     products : {Numbered(l) : l \in SeqsUpTo(CoreProducts, 1)},
     other_costs : {l \in OtherCostLists : Len(l) <= 1}]

\* what a caller appends to a list of other costs
AppendedCosts == {[id |-> 9, description |-> "late", cost |-> Some(Amount(100))]}

\* what a caller stores in a dict of state rates: d[code] = r
StoredRates == {<<Str_RJ, 25>>, <<Str_BA, 17>>}

\* the arguments of the calls of state_rate a caller makes afterwards
LaterStateArgs == {Some(Str_rj), Some(Str_BA), Some(Str_mg)}

\* leading digits of the float total costs explored
CostDigits == {0, 1, 3, 25137, 99999}

\* float total costs from 0.01 up to the largest the dialogs can produce
FloatTotalCosts ==
    {FloatOfHundredths[BigMul[Big[c], BigPow10[k]]] : c \in CostDigits, k \in 0..MaxDecade}

-----------------------------------------------------------------------------
(* The store: the tables of lines 60-91, each a set of rows, and the        *)
(* largest id each table ever gave out (AUTOINCREMENT never reuses one).    *)
(* created_at, a timestamp no handler reads back, is left out of the rows.  *)

\* lines 60-92: the tables as CREATE TABLE IF NOT EXISTS leaves a new file
EmptyStore ==
    [projects |-> {}, products |-> {}, other_costs |-> {},
     sqlite_sequence |-> [projects |-> 0, products |-> 0, other_costs |-> 0]]

\* str.strip(), of blanks
strip(s) ==
    LET inked == {i \in 1..Len(s) : s[i] # " "}
    IN  IF inked = {} THEN <<>>
        ELSE SubSeq(s, CHOOSE i \in inked : \A j \in inked : i <= j,
                       CHOOSE i \in inked : \A j \in inked : i >= j)

\* s or None, for a str s
OrNone(s) == IF s = <<>> THEN None ELSE Some(s)

\* the id AUTOINCREMENT gives the next row of a table
NextId(table) == db.sqlite_sequence[table] + 1

\* a store that lets any number be stored twice
project_number_not_unique(number, id) == FALSE

\* line 63, project_number TEXT UNIQUE: storing number in the row of this id (0
\* for a new row) fails, another row having it
project_number_taken(number, id) ==
    \E p \in db.projects : p.id # id /\ p.project_number = number

\* lines 680-681: the row of a new project, the other columns at their DEFAULT
new_project_row(number, client) ==
    [id |-> NextId("projects"), project_number |-> number, client_name |-> client,
     gross_sale |-> Some(0), purchase_state |-> None, sale_state |-> None,
     simples_rate |-> Some(DEFAULT_SIMPLES_RATE)]

\* lines 537-542, 548-551: the row save_project writes from the fields of the form
saved_project_row(id, form) ==
    [id |-> id, project_number |-> strip(form.project_number),
     client_name |-> strip(form.client_name),
     gross_sale |-> Some(form.gross_sale),
     purchase_state |-> OrNone(upper(strip(form.purchase_state))),
     sale_state |-> OrNone(upper(strip(form.sale_state))),
     simples_rate |-> Some(IF form.simples_rate = 0 THEN DEFAULT_SIMPLES_RATE
                           ELSE form.simples_rate)]

\* lines 260-264, 267-275: the row ProductDialog.on_save writes
product_row(id, project_id, form) ==
    [id |-> id, project_id |-> project_id, description |-> strip(form.description),
     purchase_cost |-> Some(form.purchase_cost), sale_price |-> Some(form.sale_price),
     qty |-> Some(form.qty),
     purchase_state |-> OrNone(upper(strip(form.purchase_state))),
     sale_state |-> OrNone(upper(strip(form.sale_state)))]

\* lines 311-317: the row OtherCostDialog.on_save writes
other_cost_row(id, project_id, form) ==
    [id |-> id, project_id |-> project_id, description |-> strip(form.description),
     cost |-> Some(form.cost)]

\* line 701, DELETE FROM projects WHERE id=?, and lines 81, 89: ON DELETE
\* CASCADE acts when the connection enforces foreign keys
delete_from_projects(id) ==
    [db EXCEPT !.projects = {p \in @ : p.id # id},
               !.products = IF foreign_keys THEN {r \in @ : r.project_id # id} ELSE @,
               !.other_costs = IF foreign_keys THEN {r \in @ : r.project_id # id} ELSE @]

-----------------------------------------------------------------------------
(* What the user enters in the dialogs. *)

NumberTexts == {<<>>, <<" ">>, <<"7">>, <<" ", "7", " ">>, <<"8">>}
ClientTexts == {<<>>, <<" ">>, <<"c">>}

ProjectForms ==
    [project_number : NumberTexts, client_name : ClientTexts,
     gross_sale : {Amount(10000)}, purchase_state : {<<" ", "s", "p">>},
     sale_state : {<<>>}, simples_rate : {0}]

ProductForms ==
    [description : {<<" ">>, <<"i">>}, purchase_cost : {Amount(1000)},
     sale_price : {Amount(1500)}, qty : {2},
     purchase_state : {<<>>}, sale_state : {Str_rj}]
    \cup
    [description : {<<"j", " ">>}, purchase_cost : {0},
     sale_price : {0}, qty : {0},
     purchase_state : {Str_sp}, sale_state : {<<>>}]

OtherCostForms == [description : {<<>>, <<"x">>, <<"y">>}, cost : {Amount(2500)}]

-----------------------------------------------------------------------------
(* The calls. *)

Init ==
    /\ \/ /\ func = "calculate_report"
          /\ project \in Projects /\ state = None /\ float_cost = FloatZero
       \/ /\ func = "caller"
          /\ project \in CallerProjects /\ state = None /\ float_cost = FloatZero
       \/ /\ func = "state_rate"
          /\ state \in StateArgs /\ project = NoProject /\ float_cost = FloatZero
       \/ /\ func = "min_sale_for_profit"
          /\ float_cost \in FloatTotalCosts /\ project = NoProject /\ state = None
    /\ pc = "called"
    /\ report = NoReport
    /\ rate = 0
    /\ exc = ""
    /\ float_sales = << >>
    /\ state_rates = DEFAULT_STATE_RATES
    /\ refs = NoReferences
    /\ steps = 0
    /\ db = EmptyStore
    /\ foreign_keys = FALSE

\* report = calculate_report(project)
CalculateReport ==
    /\ func \in {"calculate_report", "caller"}
    /\ pc = "called"
    /\ IF calculate_report_raises(project) # ""
       THEN /\ pc' = "raised"
            /\ exc' = calculate_report_raises(project)
            /\ report' = report
            /\ refs' = refs
       ELSE /\ pc' = "returned"
            /\ exc' = exc
            /\ report' \in calculate_report(project)
            /\ refs' = report_references
    /\ UNCHANGED <<func, project, state, rate, float_cost, float_sales, state_rates, steps,
                   store>>

\* rate = state_rate(state)
StateRate ==
    /\ func = "state_rate"
    /\ pc = "called"
    /\ pc' = "returned"
    /\ rate' = state_rate(state)
    /\ UNCHANGED <<func, project, state, report, exc, float_cost, float_sales,
                   state_rates, refs, steps,
                   store>>

\* float_sales = min_sale_for_profit of lines 174-175, for total_cost = float_cost
MinSaleForProfit ==
    /\ func = "min_sale_for_profit"
    /\ pc = "called"
    /\ pc' = "returned"
    /\ float_sales' = min_sale_for_profit_float(float_cost)
    /\ UNCHANGED <<func, project, state, report, rate, exc, float_cost,
                   state_rates, refs, steps,
                   store>>

\* the caller holds a returned report and makes one more step
CallerStep ==
    /\ func = "caller"
    /\ pc = "returned"
    /\ steps < MaxCallerSteps
    /\ steps' = steps + 1

\* d[k] = v, for a dict d
Stored(d, k, v) == [x \in DOMAIN d \cup {k} |-> IF x = k THEN v ELSE d[x]]

\* project['other_costs'].append(c): the list changes for everyone holding it
ChangeProjectOtherCosts ==
    /\ CallerStep
    /\ \E c \in AppendedCosts :
          project' = [project EXCEPT !.other_costs = Append(@, c)]
    /\ report' = IF refs.other_costs = ProjectOtherCosts
                 THEN [report EXCEPT !.other_costs = project'.other_costs]
                 ELSE report
    /\ UNCHANGED <<func, pc, state, rate, exc, float_cost, float_sales, state_rates, refs,
                   store>>

\* report['other_costs'].append(c)
ChangeReportOtherCosts ==
    /\ CallerStep
    /\ \E c \in AppendedCosts :
          report' = [report EXCEPT !.other_costs = Append(@, c)]
    /\ project' = IF refs.other_costs = ProjectOtherCosts
                  THEN [project EXCEPT !.other_costs = report'.other_costs]
                  ELSE project
    /\ UNCHANGED <<func, pc, state, rate, exc, float_cost, float_sales, state_rates, refs,
                   store>>

\* DEFAULT_STATE_RATES[code] = r
ChangeGlobalStateRates ==
    /\ CallerStep
    /\ \E kv \in StoredRates : state_rates' = Stored(state_rates, kv[1], kv[2])
    /\ report' = IF refs.state_rates = GlobalStateRates
                 THEN [report EXCEPT !.assumptions.state_rates = state_rates']
                 ELSE report
    /\ UNCHANGED <<func, pc, project, state, rate, exc, float_cost, float_sales, refs,
                   store>>

\* report['assumptions']['state_rates'][code] = r
ChangeReportStateRates ==
    /\ CallerStep
    /\ \E kv \in StoredRates :
          report' = [report EXCEPT !.assumptions.state_rates = Stored(@, kv[1], kv[2])]
    /\ state_rates' = IF refs.state_rates = GlobalStateRates
                      THEN report'.assumptions.state_rates
                      ELSE state_rates
    /\ UNCHANGED <<func, pc, project, state, rate, exc, float_cost, float_sales, refs,
                   store>>

\* rate = state_rate(st), called after the report was returned
StateRateAfter ==
    /\ CallerStep
    /\ \E st \in LaterStateArgs :
          /\ state' = st
          /\ rate' = state_rate_in(state_rates, st)
    /\ UNCHANGED <<func, pc, project, report, exc, float_cost, float_sales, state_rates, refs,
                   store>>

Next ==
    \/ CalculateReport \/ StateRate \/ MinSaleForProfit
    \/ ChangeProjectOtherCosts \/ ChangeReportOtherCosts
    \/ ChangeGlobalStateRates \/ ChangeReportStateRates \/ StateRateAfter

Spec == Init /\ [][Next]_vars

Returned == func = "calculate_report" /\ pc = "returned"

-----------------------------------------------------------------------------
(* The handlers of the windows.  Each is one step; func names the handler  *)
(* and pc tells how it ended: "inserted", "saved" or "deleted" when it     *)
(* wrote, the message box it showed when it refused, "returned" when it    *)
(* left silently.                                                          *)

ProjectIds == {p.id : p \in db.projects}

\* MainWindow.create_project, lines 671-685, the two input dialogs giving
\* (number, ok_number) and (client, ok_client)
CreateProjectWith(number, ok_number, client, ok_client) ==
    /\ func' = "MainWindow.create_project"
    /\ IF ~ok_number \/ strip(number) = <<>> \/ ~ok_client \/ strip(client) = <<>>
       THEN pc' = "returned" /\ db' = db
       ELSE IF project_number_taken(strip(number), 0)
       THEN pc' = "warning: exists" /\ db' = db
       ELSE /\ db.sqlite_sequence.projects < MaxProjectRows
            /\ pc' = "inserted"
            /\ db' = [db EXCEPT
                         !.projects = @ \cup {new_project_row(strip(number), strip(client))},
                         !.sqlite_sequence.projects = NextId("projects")]
    /\ UNCHANGED <<foreign_keys, calculation>>

CreateProject ==
    \E number \in NumberTexts, client \in ClientTexts, ok_number, ok_client \in BOOLEAN :
        CreateProjectWith(number, ok_number, client, ok_client)

\* MainWindow.delete_project, lines 695-703, on the selected row (None when no
\* row is selected), the user answering the question with Yes or not
DeleteProject ==
    /\ func' = "MainWindow.delete_project"
    /\ \E selected \in {None} \cup {Some(id) : id \in ProjectIds}, yes \in BOOLEAN :
          IF selected = None THEN pc' = "info: select" /\ db' = db
          ELSE IF ~yes THEN pc' = "returned" /\ db' = db
          ELSE pc' = "deleted" /\ db' = delete_from_projects(selected[1])
    /\ UNCHANGED <<foreign_keys, calculation>>

\* ProjectDialog.save_project, lines 536-555, in the dialog of project id
SaveProjectWith(id, form) ==
    /\ id \in ProjectIds
    /\ func' = "ProjectDialog.save_project"
    /\ IF strip(form.project_number) = <<>> \/ strip(form.client_name) = <<>>
       THEN pc' = "warning: required" /\ db' = db
       ELSE IF project_number_taken(strip(form.project_number), id)
       THEN pc' = "warning: exists" /\ db' = db
       ELSE /\ pc' = "saved"
            /\ db' = [db EXCEPT !.projects =
                         {IF p.id = id THEN saved_project_row(id, form) ELSE p : p \in @}]
    /\ UNCHANGED <<foreign_keys, calculation>>

SaveProject == \E id \in ProjectIds, form \in ProjectForms : SaveProjectWith(id, form)

\* ProductDialog.on_save, lines 254-276, the dialog held by project_id and
\* editing the row product (None for a new one)
ProductOnSave(project_id, product, form) ==
    IF strip(form.description) = <<>>
    THEN pc' = "warning: required" /\ db' = db
    ELSE IF product # None
    THEN /\ pc' = "saved"
         /\ db' = [db EXCEPT !.products =
                      {IF r.id = product[1].id
                       THEN product_row(r.id, r.project_id, form) ELSE r : r \in @}]
    ELSE /\ db.sqlite_sequence.products < MaxProductRows
         /\ pc' = "inserted"
         /\ db' = [db EXCEPT
                      !.products = @ \cup {product_row(NextId("products"), project_id, form)},
                      !.sqlite_sequence.products = NextId("products")]

\* ProjectDialog.add_product, lines 557-560
AddProduct ==
    /\ func' = "ProjectDialog.add_product"
    /\ \E id \in ProjectIds, form \in ProductForms : ProductOnSave(id, None, form)
    /\ UNCHANGED <<foreign_keys, calculation>>

\* ProjectDialog.edit_product, lines 562-570, on a row of the project's table
EditProduct ==
    /\ func' = "ProjectDialog.edit_product"
    /\ \E id \in ProjectIds, form \in ProductForms :
          \E r \in {x \in db.products : x.project_id = id} : ProductOnSave(id, Some(r), form)
    /\ UNCHANGED <<foreign_keys, calculation>>

\* ProjectDialog.delete_product, lines 572-576
DeleteProduct ==
    /\ func' = "ProjectDialog.delete_product"
    /\ \E id \in ProjectIds, yes \in BOOLEAN :
          \E r \in {x \in db.products : x.project_id = id} :
              IF ~yes THEN pc' = "returned" /\ db' = db
              ELSE pc' = "deleted" /\ db' = [db EXCEPT !.products = @ \ {r}]
    /\ UNCHANGED <<foreign_keys, calculation>>

\* OtherCostDialog.on_save, lines 306-319
OtherCostOnSave(project_id, cost, form) ==
    IF strip(form.description) = <<>>
    THEN pc' = "warning: required" /\ db' = db
    ELSE IF cost # None
    THEN /\ pc' = "saved"
         /\ db' = [db EXCEPT !.other_costs =
                      {IF r.id = cost[1].id
                       THEN other_cost_row(r.id, r.project_id, form) ELSE r : r \in @}]
    ELSE /\ db.sqlite_sequence.other_costs < MaxCostRows
         /\ pc' = "inserted"
         /\ db' = [db EXCEPT
                      !.other_costs = @ \cup {other_cost_row(NextId("other_costs"),
                                                             project_id, form)},
                      !.sqlite_sequence.other_costs = NextId("other_costs")]

\* ProjectDialog.add_cost, lines 578-581
AddCost ==
    /\ func' = "ProjectDialog.add_cost"
    /\ \E id \in ProjectIds, form \in OtherCostForms : OtherCostOnSave(id, None, form)
    /\ UNCHANGED <<foreign_keys, calculation>>

\* ProjectDialog.edit_cost, lines 583-590
EditCost ==
    /\ func' = "ProjectDialog.edit_cost"
    /\ \E id \in ProjectIds, form \in OtherCostForms :
          \E r \in {x \in db.other_costs : x.project_id = id} :
              OtherCostOnSave(id, Some(r), form)
    /\ UNCHANGED <<foreign_keys, calculation>>

\* ProjectDialog.delete_cost, lines 592-596
DeleteCost ==
    /\ func' = "ProjectDialog.delete_cost"
    /\ \E id \in ProjectIds, yes \in BOOLEAN :
          \E r \in {x \in db.other_costs : x.project_id = id} :
              IF ~yes THEN pc' = "returned" /\ db' = db
              ELSE pc' = "deleted" /\ db' = [db EXCEPT !.other_costs = @ \ {r}]
    /\ UNCHANGED <<foreign_keys, calculation>>

\* the main window on a new database file; whether the SQLite library of the
\* build enforces foreign keys by default is its compile-time choice, and no
\* line turns the enforcement on
StoreInit ==
    /\ func = "MainWindow.__init__"
    /\ pc = "returned"
    /\ db = EmptyStore
    /\ foreign_keys \in BOOLEAN
    /\ project = NoProject /\ state = None /\ report = NoReport /\ rate = 0
    /\ exc = "" /\ float_cost = FloatZero /\ float_sales = << >>
    /\ state_rates = DEFAULT_STATE_RATES /\ refs = NoReferences /\ steps = 0

StoreNext ==
    \/ CreateProject \/ DeleteProject \/ SaveProject
    \/ AddProduct \/ EditProduct \/ DeleteProduct
    \/ AddCost \/ EditCost \/ DeleteCost

StoreSpec == StoreInit /\ [][StoreNext]_vars

-----------------------------------------------------------------------------
(* Vocabulary of the properties: the inputs as the specification reads     *)
(* them, computed apart from calculate_report.                             *)

NumProducts == Len(project.products)
Items == 1..NumProducts

\* a numeric field, absent read as 0
FieldOrZero(x) == IF x = None THEN 0 ELSE x[1]

\* a str field, absent read as ''
FieldOrEmpty(x) == IF x = None THEN <<>> ELSE x[1]

\* the quantity of product i: 1 when absent or zero
InputQty(i) ==
    IF FieldOrZero(project.products[i].qty) = 0 THEN 1
    ELSE FieldOrZero(project.products[i].qty)

InputSalePrice(i) == FieldOrZero(project.products[i].sale_price)
InputPurchaseCost(i) == FieldOrZero(project.products[i].purchase_cost)
ManualGrossSale == FieldOrZero(project.gross_sale)

RECURSIVE SumOver(_, _)
\* the sum of f[i] over the indices 1..n
SumOver(f, n) == IF n = 0 THEN 0 ELSE f[n] + SumOver(f, n - 1)

SumOfSales == SumOver([i \in Items |-> InputSalePrice(i) * InputQty(i)], NumProducts)

SumOfOtherCosts ==
    SumOver([i \in 1..Len(project.other_costs) |-> project.other_costs[i].cost[1]],
            Len(project.other_costs))

-----------------------------------------------------------------------------
\* C1: every returned report has total_cost = total_purchase + total_difal_in
\* + total_difal_out + total_other + das_total, and total_other is the sum of
\* the costs of the project's other-cost records.
C1_TotalCostIsSumOfParts ==
    Returned =>
        /\ report.total_other = SumOfOtherCosts
        /\ report.total_cost =
              report.total_purchase + report.total_difal_in + report.total_difal_out
                  + report.total_other + report.das_total

\* a report in which each of the five parts is present
C1_Witness ==
    /\ Returned
    /\ Len(project.other_costs) = 2
    /\ report.total_purchase > 0
    /\ report.total_difal_in > 0
    /\ report.total_difal_out > 0
    /\ report.total_other > 0
    /\ report.das_total > 0

\* C2: with no positive sale price the gross sale is the project's manual
\* figure; with any positive sale price it is the sum of sale_price * qty over
\* the products and the manual figure is ignored.
C2_GrossSaleResolution ==
    Returned =>
        IF \A i \in Items : InputSalePrice(i) = 0
        THEN report.gross_sale = ManualGrossSale
        ELSE report.gross_sale = SumOfSales

\* priced products override a larger manual figure
C2_Witness ==
    /\ Returned
    /\ \E i \in Items : InputSalePrice(i) > 0
    /\ ManualGrossSale > SumOfSales
    /\ report.gross_sale = SumOfSales

\* C3: no line item of a report has a negative difal_in or difal_out.
C3_DifalNonNegative ==
    Returned =>
        \A i \in 1..Len(report.products) :
            report.products[i].difal_in >= 0 /\ report.products[i].difal_out >= 0

\* an interstate sale to a state whose rate does not exceed the interstate
\* rate, next to a purchase that does owe DIFAL
C3_Witness ==
    /\ Returned
    /\ \E i \in 1..Len(report.products) :
          /\ report.products[i].sale_state \notin {<<>>, COMPANY_STATE}
          /\ state_rate(Some(report.products[i].sale_state)) <= DEFAULT_INTERSTATE_RATE
          /\ report.products[i].purchase_total > 0
          /\ report.products[i].difal_out = 0
          /\ report.products[i].difal_in > 0

\* the value difal_out is charged on: sale_total when positive, else
\* purchase_total
SaleValue(item) == IF item.sale_total > 0 THEN item.sale_total ELSE item.purchase_total

\* the rate of a non-empty upper-case state code
TableRate(code) ==
    IF code = Str_MG THEN 18
    ELSE IF code = Str_SP THEN 18
    ELSE IF code = Str_RJ THEN 20
    ELSE 12

\* C4: difal_out of an item is max(0, rate_for(sale_state) - interstate_rate)
\* * sale_value when its sale_state is non-empty and not the home state, and
\* 0 otherwise.
C4_DifalOut ==
    Returned =>
        \A i \in 1..Len(report.products) :
            LET item == report.products[i] IN
            IF item.sale_state # <<>> /\ item.sale_state # Str_MG
            THEN item.difal_out * Percent =
                    Max(0, TableRate(item.sale_state) - 12) * SaleValue(item)
            ELSE item.difal_out = 0

\* an unpriced item sold to another state is charged on its purchase total
C4_Witness ==
    /\ Returned
    /\ \E i \in 1..Len(report.products) :
          /\ report.products[i].sale_state = Str_RJ
          /\ report.products[i].sale_total = 0
          /\ report.products[i].purchase_total > 0
          /\ report.products[i].difal_out > 0

\* C5: difal_in of an item is max(0, home rate - interstate_rate) *
\* purchase_total when its purchase_state is non-empty and not the home state,
\* whatever that state is, and 0 otherwise; an item bought and sold in the
\* home state has both DIFAL figures 0.
C5_DifalIn ==
    Returned =>
        \A i \in 1..Len(report.products) :
            LET item == report.products[i] IN
            /\ IF item.purchase_state # <<>> /\ item.purchase_state # Str_MG
               THEN item.difal_in * Percent = Max(0, 18 - 12) * item.purchase_total
               ELSE item.difal_in = 0
            /\ item.purchase_state = Str_MG /\ item.sale_state = Str_MG
                  => item.difal_in = 0 /\ item.difal_out = 0

\* a purchase from a state outside the rate table owes the home differential
C5_Witness ==
    /\ Returned
    /\ \E i \in 1..Len(report.products) :
          /\ report.products[i].purchase_state = Str_BA
          /\ report.products[i].purchase_total > 0
          /\ report.products[i].difal_in * Percent = 6 * report.products[i].purchase_total

\* C6: net_value = gross_sale - total_cost; net_percent = net_value /
\* gross_sale * 100 when gross_sale > 0 and 0 otherwise, and a zero gross sale
\* still yields a report.
C6_NetValueAndPercent ==
    /\ Returned =>
          /\ report.net_value = report.gross_sale - report.total_cost
          /\ IF report.gross_sale > 0
             THEN \* net_percent = n/d in lowest terms with n/d = net_value * 100 / gross_sale
                  /\ report.net_percent[2] > 0
                  /\ report.gross_sale % report.net_percent[2] = 0
                  /\ report.net_percent[1] * (report.gross_sale \div report.net_percent[2]) =
                        report.net_value * 100
             ELSE report.net_percent = <<0, 1>>
    /\ func = "calculate_report" => exc # "ZeroDivisionError"

\* a report with no gross sale and a positive cost
C6_Witness ==
    /\ Returned
    /\ report.gross_sale = 0
    /\ report.total_cost > 0
    /\ report.net_value < 0
    /\ report.net_percent = <<0, 1>>

\* a <= b, for floats
FloatLeq(a, b) ==
    LET e == MinInt(a.e, b.e)
    IN  BigCmp[BigShiftLeft[a.m, a.e - e], BigShiftLeft[b.m, b.e - e]] <= 0

\* x has two decimals: it is the float of a whole number of hundredths
TwoDecimals(x) == FloatRound2[x] = x

\* |sale * (1 - m) - cost| <= 0.01 for the floats sale and cost and the margin
\* of m percent, in exact arithmetic: |sale * (100 - m) - cost * 100| <= 1
WithinOneCent(sale, cost, m) ==
    LET e == MinInt(MinInt(sale.e, cost.e), 0)
        a == BigMulSmall[BigShiftLeft[sale.m, sale.e - e], Percent - m]
        b == BigMulSmall[BigShiftLeft[cost.m, cost.e - e], Percent]
        one == BigShiftLeft[Big[1], -e]
    IN  IF BigCmp[a, b] >= 0 THEN BigCmp[BigSub[a, b], one] <= 0
        ELSE BigCmp[BigSub[b, a], one] <= 0

LabelledMargins == {<<"10%", 10>>, <<"15%", 15>>, <<"20%", 20>>}

\* the report of a project, in exact arithmetic: the entry of margin m is
\* total_cost / (1 - m) rounded to two decimals
ExactMinSaleRounded ==
    Returned =>
        /\ DOMAIN report.min_sale_for_profit = {"10%", "15%", "20%"}
        /\ report.total_cost >= 0 =>
              \A lm \in LabelledMargins :
                  LET sale == report.min_sale_for_profit[lm[1]]
                      m == lm[2]
                      \* (sale - total_cost / (1 - m)) * (1 - m) * Percent
                      err == sale * (Percent - m) - report.total_cost * Percent
                  IN  /\ sale % Cent = 0
                      /\ 2 * Abs(err) <= Cent * (Percent - m)
                      /\ Abs(err) <= Cent * Percent

FloatMinSaleReturned == func = "min_sale_for_profit" /\ pc = "returned"

\* 1e13
TenTrillion == FloatOfHundredths[BigPow10[15]]

\* C7: min_sale_for_profit has exactly the labels "10%", "15%" and "20%", and
\* for every total_cost >= 0 the entry of margin m is total_cost / (1 - m)
\* rounded to two decimals, so entry * (1 - m) is within 0.01 of total_cost.
C7_MinSaleForProfit ==
    /\ ExactMinSaleRounded
    /\ FloatMinSaleReturned =>
          /\ DOMAIN float_sales = {"10%", "15%", "20%"}
          /\ \A lm \in LabelledMargins :
                /\ TwoDecimals(float_sales[lm[1]])
                /\ WithinOneCent(float_sales[lm[1]], float_cost, lm[2])

\* C7, amended: the same for every total_cost from 0 to 1e13; beyond, the
\* labels and the two decimals remain, but neighbouring floats are more than
\* a cent apart and the entry can miss total_cost / (1 - m) by more.
C7_MinSaleForProfitUpTo1e13 ==
    /\ ExactMinSaleRounded
    /\ FloatMinSaleReturned =>
          /\ DOMAIN float_sales = {"10%", "15%", "20%"}
          /\ \A lm \in LabelledMargins :
                /\ TwoDecimals(float_sales[lm[1]])
                /\ FloatLeq(float_cost, TenTrillion) =>
                      WithinOneCent(float_sales[lm[1]], float_cost, lm[2])

\* a total cost between 1e12 and 1e13 whose entries for 10% and 15% are not
\* the exact quotient, so that rounding acts
C7_Witness ==
    /\ FloatMinSaleReturned
    /\ FloatLeq(FloatOfHundredths[BigPow10[14]], float_cost)
    /\ FloatLeq(float_cost, TenTrillion)
    /\ \A lm \in {<<"10%", 10>>, <<"15%", 15>>} :
          BigMulSmall[BigShiftLeft[float_sales[lm[1]].m, float_sales[lm[1]].e + 60], Percent - lm[2]]
              # BigMulSmall[BigShiftLeft[float_cost.m, float_cost.e + 60], Percent]

\* C8: state_rate never raises; None and '' give 0.0, a code whose upper case
\* is MG, SP or RJ gives 0.18, 0.18 or 0.20, any other code gives 0.12.
C8_StateRate ==
    func = "state_rate" =>
        /\ pc # "raised"
        /\ pc = "returned" =>
              rate = IF state = None THEN 0
                     ELSE IF state[1] = <<>> THEN 0
                     ELSE TableRate(upper(state[1]))

\* a lower-case code of the table
C8_Witness ==
    /\ func = "state_rate"
    /\ pc = "returned"
    /\ state = Some(Str_rj)
    /\ rate = 20

ResolvedPurchaseState(i) ==
    IF FieldOrEmpty(project.products[i].purchase_state) # <<>>
    THEN FieldOrEmpty(project.products[i].purchase_state)
    ELSE FieldOrEmpty(project.purchase_state)

ResolvedSaleState(i) ==
    IF FieldOrEmpty(project.products[i].sale_state) # <<>>
    THEN FieldOrEmpty(project.products[i].sale_state)
    ELSE FieldOrEmpty(project.sale_state)

\* C10: an item's purchase_state (sale_state) is the product's own code if
\* non-empty, else the project's default, upper-cased, and that upper-cased
\* code decides the DIFAL: a code that upper-cases to the home state owes none,
\* and an inherited default is charged like an own code.
C10_ResolvedStates ==
    Returned =>
        \A i \in Items :
            LET item == report.products[i] IN
            /\ item.purchase_state = upper(ResolvedPurchaseState(i))
            /\ item.sale_state = upper(ResolvedSaleState(i))
            /\ upper(ResolvedPurchaseState(i)) = Str_MG => item.difal_in = 0
            /\ upper(ResolvedSaleState(i)) = Str_MG => item.difal_out = 0
            /\ upper(ResolvedPurchaseState(i)) \notin {<<>>, Str_MG}
                  => item.difal_in * Percent = 6 * item.purchase_total
            /\ upper(ResolvedSaleState(i)) \notin {<<>>, Str_MG}
                  => item.difal_out * Percent =
                        (TableRate(upper(ResolvedSaleState(i))) - 12) * SaleValue(item)

\* a product bought in 'mg' with no sale state, in a project whose default
\* sale state is 'sp'
C10_Witness ==
    /\ Returned
    /\ \E i \in Items :
          /\ project.products[i].purchase_state = Some(Str_mg)
          /\ FieldOrEmpty(project.products[i].sale_state) = <<>>
          /\ project.sale_state = Some(Str_sp)
          /\ report.products[i].purchase_state = Str_MG
          /\ report.products[i].sale_state = Str_SP
          /\ report.products[i].purchase_total > 0
          /\ report.products[i].difal_in = 0
          /\ report.products[i].difal_out > 0

\* the simples_rate of the project: the default 0.05 when absent or zero
InputSimplesRate ==
    IF FieldOrZero(project.simples_rate) = 0 THEN 5
    ELSE FieldOrZero(project.simples_rate)

\* the gross sale as C2 resolves it
ResolvedGross == IF SumOfSales > 0 THEN SumOfSales ELSE ManualGrossSale

\* C11: every report has das_total = gross_sale * simples_rate, gross_sale the
\* resolved gross and simples_rate the project's, or the default 0.05 when that
\* is absent or zero; the report echoes the simples_rate used.
C11_DasTotal ==
    Returned =>
        /\ report.simples_rate = InputSimplesRate
        /\ report.gross_sale = ResolvedGross
        /\ report.das_total * Percent = ResolvedGross * InputSimplesRate

\* a project whose simples_rate is zero, charged at the default rate
C11_Witness ==
    /\ Returned
    /\ project.simples_rate = Some(0)
    /\ report.simples_rate = 5
    /\ report.gross_sale > 0
    /\ report.das_total * Percent = report.gross_sale * 5

\* the sum of the other costs, an absent cost taken as 0.0
SumOfOtherCostsOrZero ==
    SumOver([i \in 1..Len(project.other_costs) |-> FieldOrZero(project.other_costs[i].cost)],
            Len(project.other_costs))

\* C12: calculate_report never fails because of a missing or null numeric
\* field: whichever of gross_sale, simples_rate, a product's purchase_cost,
\* sale_price or qty, or an other cost's cost is absent, the call returns a
\* report in which the field was taken as its default (0.0, or 1 for qty).
C12_MissingNumbersDefault ==
    (func = "calculate_report" /\ pc # "called") =>
        /\ pc = "returned"
        /\ report.gross_sale = ResolvedGross
        /\ report.simples_rate = InputSimplesRate
        /\ Len(report.products) = NumProducts
        /\ \A i \in Items :
              /\ report.products[i].qty = InputQty(i)
              /\ report.products[i].purchase_total = InputPurchaseCost(i) * InputQty(i)
              /\ report.products[i].sale_total = InputSalePrice(i) * InputQty(i)
        /\ report.total_other = SumOfOtherCostsOrZero

ReportItems == 1..Len(report.products)

\* C13: products has one record per input product, in input order, and
\* total_purchase, total_difal_in and total_difal_out are the sums of
\* purchase_total, difal_in and difal_out over those records; when the sum of
\* sale_total is positive, gross_sale equals it.
C13_AggregatesAreSums ==
    Returned =>
        /\ Len(report.products) = NumProducts
        /\ \A i \in Items :
              /\ report.products[i].id = project.products[i].id
              /\ report.products[i].description = project.products[i].description
        /\ report.total_purchase =
              SumOver([i \in ReportItems |-> report.products[i].purchase_total],
                      Len(report.products))
        /\ report.total_difal_in =
              SumOver([i \in ReportItems |-> report.products[i].difal_in],
                      Len(report.products))
        /\ report.total_difal_out =
              SumOver([i \in ReportItems |-> report.products[i].difal_out],
                      Len(report.products))
        /\ SumOver([i \in ReportItems |-> report.products[i].sale_total],
                   Len(report.products)) > 0
              => report.gross_sale =
                    SumOver([i \in ReportItems |-> report.products[i].sale_total],
                            Len(report.products))

\* two products of different quantities, each adding to every aggregate but
\* one product alone to the sales
C13_Witness ==
    /\ Returned
    /\ Len(report.products) = 2
    /\ report.products[1].id = 1 /\ report.products[2].id = 2
    /\ report.products[1].qty # report.products[2].qty
    /\ \A i \in ReportItems :
          /\ report.products[i].purchase_total > 0
          /\ report.products[i].difal_out > 0
    /\ \E i \in ReportItems : report.products[i].difal_in > 0
    /\ report.products[1].sale_total > 0
    /\ report.products[2].sale_total = 0
    /\ report.gross_sale = report.products[1].sale_total
    /\ report.total_purchase > report.products[1].purchase_total

\* C14: calculate_report does not modify its input project, and the report it
\* returns shares no object with the project or with the configuration: a
\* later change of project['other_costs'] or of the global state-rate table
\* leaves the returned report as it was, and a change of the report's
\* other_costs or assumptions.state_rates leaves the project and the rates a
\* later call uses as they were.
C14_NoAliasing ==
    [][/\ CalculateReport => (project' = project /\ state_rates' = state_rates)
       /\ ChangeProjectOtherCosts => report' = report
       /\ ChangeGlobalStateRates => report' = report
       /\ ChangeReportOtherCosts => project' = project
       /\ ChangeReportStateRates =>
             /\ state_rates' = state_rates
             /\ \A st \in LaterStateArgs :
                   state_rate_in(state_rates', st) = state_rate_in(state_rates, st)]_vars

\* C15: after any sequence of handler calls, every product row and every
\* other-cost row has the id of a stored project as project_id; deleting a
\* project takes its products and other costs with it.
C15_RowsBelongToProjects ==
    \A r \in db.products \cup db.other_costs : r.project_id \in ProjectIds

\* some stored project has this number
NumberStored(number) == \E p \in db.projects : p.project_number = number

\* another stored project than id has this number
NumberOfAnother(number, id) ==
    \E p \in db.projects : p.id # id /\ p.project_number = number

\* no two project rows with one number, none with an empty number or client
UniqueNonEmpty ==
    /\ \A p, q \in db.projects : p.project_number = q.project_number => p = q
    /\ \A p \in db.projects : p.project_number # <<>> /\ p.client_name # <<>>

\* creating with, or renaming to, an empty or used number is refused and
\* stores nothing: a call that was not refused, or that changed the store, was
\* not made with such a number
BadNumberRefused ==
    /\ (/\ func' = "MainWindow.create_project"
        /\ ~(db' = db /\ pc' \in {"returned", "warning: exists"}))
          => \A number \in NumberTexts, client \in ClientTexts,
                ok_number, ok_client \in BOOLEAN :
                CreateProjectWith(number, ok_number, client, ok_client)
                    => ~(strip(number) = <<>> \/ NumberStored(strip(number)))
    /\ (/\ func' = "ProjectDialog.save_project"
        /\ ~(db' = db /\ pc' \in {"warning: required", "warning: exists"}))
          => \A id \in ProjectIds, form \in ProjectForms :
                SaveProjectWith(id, form)
                    => ~(\/ strip(form.project_number) = <<>>
                         \/ NumberOfAnother(strip(form.project_number), id))

\* C16: after any sequence of create_project and save_project, no two stored
\* projects have the same project_number and none has an empty project_number
\* or client_name; creating a project with, or renaming one to, an empty or
\* already used number is rejected and leaves every stored project unchanged.
C16_UniqueProjectNumbers == []UniqueNonEmpty /\ [][BadNumberRefused]_vars

\* two stored projects, and a rename of one to the number of the other refused
C16_Witness ==
    /\ func = "ProjectDialog.save_project"
    /\ pc = "warning: exists"
    /\ Cardinality(db.projects) = 2
    /\ \E p, q \in db.projects : p.project_number = <<"7">> /\ q.project_number = <<"8">>

====
